---- MODULE Spec2Model ----
(***************************************************************************)
(* Soft-assertion / tolerance-comparison engine of the test framework      *)
(* (src/src/core/softcheck.py and its collaborators).                      *)
(*                                                                         *)
(* Python floats are IEEE-754 binary64 values.  They are modelled exactly: *)
(* a float is a sign, a 53-bit significand and a binary exponent, and each *)
(* arithmetic operation computes the exact result and rounds it to nearest *)
(* (ties to even).  Significands do not fit TLC's 32-bit integers, so      *)
(* they are kept as little-endian sequences of 15-bit limbs.               *)
(***************************************************************************)
EXTENDS Integers, Sequences, FiniteSets, TLC

VARIABLES
    pc,                \* "ready" / "done" around a single call; "session" in Spec
    call,              \* the call: the function and its arguments
    ret,               \* its outcome: the returned value, or the exception
    test_steps,        \* StepLogs.test_steps
    all_failed_logs,   \* StepLogs.all_failed_logs
    failed_logs_dict,  \* StepLogs.failed_logs_dict
    TEST_ID,           \* StepLogs.TEST_ID
    driver_list,       \* DriverManager.driver_list
    web_driver,        \* WebDriver._driver
    quit_drivers,      \* the drivers whose quit() has been called
    check_log,         \* what pytest-check was told: a boolean and a message
    screenshots,       \* the drivers attach_screenshot was called on
    attachments,       \* the tables attach_verify_table was called with
    attempt,           \* the loop variable of a retrying wrapper
    issued,            \* the calls of the wrapped function so far: what each one did
    slept              \* the delays time.sleep was called with

vars == <<pc, call, ret, test_steps, all_failed_logs, failed_logs_dict, TEST_ID,
          driver_list, web_driver, quit_drivers, check_log, screenshots, attachments,
          attempt, issued, slept>>

registries == <<test_steps, all_failed_logs, failed_logs_dict, TEST_ID,
                driver_list, web_driver, quit_drivers, check_log, screenshots, attachments>>

retry == <<attempt, issued, slept>>

(***************************************************************************)
(* Unbounded naturals as little-endian limb sequences (<<>> is 0).         *)
(***************************************************************************)
BASE == 2^15

RECURSIVE Pow2(_)
Pow2(k) == IF k = 0 THEN 1 ELSE 2 * Pow2(k - 1)

Max(a, b) == IF a >= b THEN a ELSE b

Min(a, b) == IF a <= b THEN a ELSE b

Limb(x, i) == IF i <= Len(x) THEN x[i] ELSE 0

RECURSIVE Trim(_)
Trim(x) ==
    IF x = <<>> THEN <<>>
    ELSE IF x[Len(x)] = 0 THEN Trim(SubSeq(x, 1, Len(x) - 1))
    ELSE x

RECURSIVE FromInt(_)
FromInt(n) == IF n = 0 THEN <<>> ELSE <<n % BASE>> \o FromInt(n \div BASE)

RECURSIVE AddC(_, _, _, _)
AddC(x, y, i, c) ==
    IF i > Len(x) /\ i > Len(y)
    THEN (IF c = 0 THEN <<>> ELSE <<c>>)
    ELSE LET s == Limb(x, i) + Limb(y, i) + c
         IN  <<s % BASE>> \o AddC(x, y, i + 1, s \div BASE)

AddB(x, y) == AddC(x, y, 1, 0)

RECURSIVE SubC(_, _, _, _)
SubC(x, y, i, b) ==
    IF i > Len(x) THEN <<>>
    ELSE LET d == Limb(x, i) - Limb(y, i) - b
         IN  IF d < 0 THEN <<d + BASE>> \o SubC(x, y, i + 1, 1)
             ELSE <<d>> \o SubC(x, y, i + 1, 0)

\* x - y for x >= y
SubB(x, y) == Trim(SubC(x, y, 1, 0))

RECURSIVE CmpC(_, _, _)
CmpC(x, y, i) ==
    IF i = 0 THEN 0
    ELSE IF x[i] < y[i] THEN -1
    ELSE IF x[i] > y[i] THEN 1
    ELSE CmpC(x, y, i - 1)

\* -1, 0, 1 as x <, =, > y (both trimmed)
CmpB(x, y) ==
    IF Len(x) < Len(y) THEN -1
    ELSE IF Len(x) > Len(y) THEN 1
    ELSE CmpC(x, y, Len(x))

RECURSIVE MulC(_, _, _, _)
MulC(x, k, i, c) ==
    IF i > Len(x) THEN (IF c = 0 THEN <<>> ELSE <<c>>)
    ELSE LET p == x[i] * k + c
         IN  <<p % BASE>> \o MulC(x, k, i + 1, p \div BASE)

\* x * k for 0 <= k <= BASE
MulSmall(x, k) == IF k = 0 THEN <<>> ELSE MulC(x, k, 1, 0)

Zeros(n) == [i \in 1..n |-> 0]

RECURSIVE MulAcc(_, _, _)
MulAcc(x, y, i) ==
    IF i > Len(y) THEN <<>>
    ELSE AddB(IF y[i] = 0 THEN <<>> ELSE Zeros(i - 1) \o MulSmall(x, y[i]),
              MulAcc(x, y, i + 1))

MulB(x, y) == Trim(MulAcc(x, y, 1))

RECURSIVE DivC(_, _, _, _)
DivC(x, k, i, r) ==
    IF i = 0 THEN [q |-> <<>>, r |-> r]
    ELSE LET cur  == r * BASE + x[i]
             rest == DivC(x, k, i - 1, cur % k)
         IN  [q |-> Append(rest.q, cur \div k), r |-> rest.r]

\* quotient and remainder of x by 1 <= k <= BASE
DivSmall(x, k) ==
    LET d == DivC(x, k, Len(x), 0) IN [q |-> Trim(d.q), r |-> d.r]

RECURSIVE BitLenInt(_)
BitLenInt(n) == IF n = 0 THEN 0 ELSE 1 + BitLenInt(n \div 2)

BitLen(x) == IF x = <<>> THEN 0 ELSE 15 * (Len(x) - 1) + BitLenInt(x[Len(x)])

ShL(x, k) ==
    IF x = <<>> THEN <<>> ELSE Zeros(k \div 15) \o MulSmall(x, Pow2(k % 15))

ShR(x, k) ==
    IF k \div 15 >= Len(x) THEN <<>>
    ELSE DivSmall(SubSeq(x, k \div 15 + 1, Len(x)), Pow2(k % 15)).q

IsOdd(x) == x # <<>> /\ x[1] % 2 = 1

(***************************************************************************)
(* binary64 floats: [s |-> sign, m |-> 53-bit significand, e |-> exponent] *)
(* with value (-1)^s * m * 2^e; zero has the empty significand.  The       *)
(* inputs of the model stay far from the subnormal and overflow ranges.    *)
(***************************************************************************)
FloatBits == 53

FZero == [s |-> 0, m |-> <<>>, e |-> 0]

IsZero(a) == a.m = <<>>

RECURSIVE DivList(_, _, _)
DivList(x, ds, i) ==
    IF i > Len(ds) THEN [q |-> x, sticky |-> FALSE]
    ELSE LET d    == DivSmall(x, ds[i])
             rest == DivList(d.q, ds, i + 1)
         IN  [q |-> rest.q, sticky |-> rest.sticky \/ d.r # 0]

RECURSIVE SumBits(_, _)
SumBits(ds, i) == IF i > Len(ds) THEN 0 ELSE BitLenInt(ds[i]) + SumBits(ds, i + 1)

Normalize(s, m, e) ==
    IF BitLen(m) > FloatBits THEN [s |-> s, m |-> ShR(m, 1), e |-> e + 1]
    ELSE [s |-> s, m |-> m, e |-> e]

\* m is the kept significand, c orders the dropped part against one half
RoundUp(s, m, c, sticky, e) ==
    Normalize(s,
              IF c = 1 \/ (c = 0 /\ (sticky \/ IsOdd(m))) THEN AddB(m, <<1>>) ELSE m,
              e)

RoundAt(s, q, sticky, e, drop) ==
    RoundUp(s, ShR(q, drop),
            CmpB(SubB(q, ShL(ShR(q, drop), drop)), ShL(<<1>>, drop - 1)),
            sticky, e + drop)

\* the exact value q * 2^e (plus a non-zero rest when sticky) rounded to 53
\* bits, to nearest, ties to even; q has more than 53 bits
RoundTail(s, q, sticky, e) == RoundAt(s, q, sticky, e, BitLen(q) - FloatBits)

RoundDiv(s, d, e) == RoundTail(s, d.q, d.sticky, e)

RoundScaled(s, n, ds, e2, k) == RoundDiv(s, DivList(ShL(n, k), ds, 1), e2 - k)

\* (-1)^s * n / (ds[1] * ... * ds[k]) * 2^e2, rounded
RoundQ(s, n, ds, e2) ==
    IF n = <<>> THEN FZero
    ELSE RoundScaled(s, n, ds, e2, Max(0, FloatBits + 3 + SumBits(ds, 1) - BitLen(n)))

\* the float a decimal literal (or float("...")) denotes: (-1)^s * n / prod(ds)
PyFloat(s, n, ds) == RoundQ(s, FromInt(n), ds, 0)

FAbs(a) == [a EXCEPT !.s = 0]

FNeg(a) == IF IsZero(a) THEN a ELSE [a EXCEPT !.s = 1 - a.s]

\* sa * na - sb * nb for magnitudes na, nb in units of 2^e0
FSubMag(sa, sb, na, nb, c, e0) ==
    RoundQ(IF sa # sb \/ c >= 0 THEN sa ELSE 1 - sa,
           IF sa # sb THEN AddB(na, nb)
           ELSE IF c >= 0 THEN SubB(na, nb) ELSE SubB(nb, na),
           <<>>, e0)

FSubAligned(a, b, e0) ==
    FSubMag(a.s, b.s, ShL(a.m, a.e - e0), ShL(b.m, b.e - e0),
            CmpB(ShL(a.m, a.e - e0), ShL(b.m, b.e - e0)), e0)

\* a - b
FSub(a, b) ==
    IF IsZero(b) THEN a
    ELSE IF IsZero(a) THEN FNeg(b)
    ELSE FSubAligned(a, b, Min(a.e, b.e))

\* a * b
FMul(a, b) ==
    IF IsZero(a) \/ IsZero(b) THEN FZero
    ELSE RoundQ((a.s + b.s) % 2, MulB(a.m, b.m), <<>>, a.e + b.e)

\* a / n for the float of a small positive integer n
FDivInt(a, n) == RoundQ(a.s, a.m, <<n>>, a.e)

RECURSIVE DivStep(_, _, _)
\* quotient and remainder of r0 * 2^i by d, for r0 < d: binary long division,
\* the upper half of the quotient's bits first, then the lower half
DivStep(r0, d, i) ==
    IF i = 0 THEN [q |-> <<>>, r |-> r0]
    ELSE IF i = 1
    THEN LET r2 == MulSmall(r0, 2)
         IN  IF CmpB(r2, d) >= 0 THEN [q |-> <<1>>, r |-> SubB(r2, d)]
             ELSE [q |-> <<>>, r |-> r2]
    ELSE LET hi == DivStep(r0, d, i \div 2)
             lo == DivStep(hi.r, d, i - i \div 2)
         IN  [q |-> AddB(ShL(hi.q, i - i \div 2), lo.q), r |-> lo.r]

FDivRound(s, d, ge, e) ==
    RoundTail(s, IF ge THEN AddB(ShL(<<1>>, FloatBits + 3), d.q) ELSE d.q, d.r # <<>>, e)

FDivSig(a, b, ge) ==
    FDivRound((a.s + b.s) % 2,
              DivStep(IF ge THEN SubB(a.m, b.m) ELSE a.m, b.m, FloatBits + 3),
              ge, a.e - b.e - (FloatBits + 3))

\* a / b for b # 0
FDiv(a, b) == IF IsZero(a) THEN FZero ELSE FDivSig(a, b, CmpB(a.m, b.m) >= 0)

\* a + b
FAdd(a, b) == FSub(a, FNeg(b))

\* -1, 0, 1 as |a| <, =, > |b|
FCmpMag(a, b) ==
    IF IsZero(a) THEN (IF IsZero(b) THEN 0 ELSE -1)
    ELSE IF IsZero(b) THEN 1
    ELSE IF a.e < b.e THEN -1
    ELSE IF a.e > b.e THEN 1
    ELSE CmpB(a.m, b.m)

\* -1, 0, 1 as a <, =, > b
FCmp(a, b) ==
    IF a.s = 0 /\ b.s = 0 THEN FCmpMag(a, b)
    ELSE IF a.s = 1 /\ b.s = 1 THEN FCmpMag(b, a)
    ELSE IF IsZero(a) /\ IsZero(b) THEN 0
    ELSE IF a.s = 1 THEN -1
    ELSE 1

FLe(a, b) == FCmp(a, b) <= 0

FLt(a, b) == FCmp(a, b) < 0

(***************************************************************************)
(* Python values.  Text is a sequence of one-character strings, so that    *)
(* stripping separators, parsing, lower-casing and substring search are    *)
(* computed on the characters.  Python ints and floats compare as numbers  *)
(* and are both kept as floats.                                            *)
(***************************************************************************)
PyNum(f) == [t |-> "num", f |-> f]

PyStr(cs) == [t |-> "str", cs |-> cs]

PyNone == [t |-> "none"]

PyList(items) == [t |-> "list", items |-> items]

IsNum(x) == x.t = "num"

RECURSIVE Pow10s(_)
\* the factors of 10^k, each at most 10^4
Pow10s(k) ==
    IF k = 0 THEN <<>>
    ELSE IF k = 1 THEN <<10>>
    ELSE IF k = 2 THEN <<100>>
    ELSE IF k = 3 THEN <<1000>>
    ELSE <<10000>> \o Pow10s(k - 4)

\* the number written n / 10^k with sign s (0 plus, 1 minus)
Dec(s, n, k) == PyNum(PyFloat(s, n, Pow10s(k)))

Digits == <<"0", "1", "2", "3", "4", "5", "6", "7", "8", "9">>

IsDigit(c) == \E d \in 1..10 : Digits[d] = c

DigitOf(c) == (CHOOSE d \in 1..10 : Digits[d] = c) - 1

RECURSIVE DigitsValue(_, _)
\* the integer the digits of cs spell after the digits already read as acc
DigitsValue(cs, acc) ==
    IF cs = <<>> THEN acc
    ELSE DigitsValue(Tail(cs), IF IsDigit(cs[1]) THEN 10 * acc + DigitOf(cs[1]) ELSE acc)

Unsigned(cs) == IF cs # <<>> /\ cs[1] \in {"-", "+"} THEN Tail(cs) ELSE cs

\* text float() accepts: an optional sign, digits, at most one decimal point
IsDecimalText(cs) ==
    LET body == Unsigned(cs)
    IN  /\ \E i \in 1..Len(body) : IsDigit(body[i])
        /\ \A i \in 1..Len(body) : IsDigit(body[i]) \/ body[i] = "."
        /\ Cardinality({i \in 1..Len(body) : body[i] = "."}) <= 1

FractionDigits(body, dots) ==
    IF dots = {} THEN 0 ELSE Len(body) - (CHOOSE i \in dots : TRUE)

ParseUnsigned(s, body) ==
    PyFloat(s, DigitsValue(body, 0),
            Pow10s(FractionDigits(body, {i \in 1..Len(body) : body[i] = "."})))

ParseFloat(cs) == ParseUnsigned(IF cs[1] = "-" THEN 1 ELSE 0, Unsigned(cs))

Normalized(cs) == IF IsDecimalText(cs) THEN PyNum(ParseFloat(cs)) ELSE PyStr(cs)

\* remove_comma(value, to_float=True): thousands separators are dropped and
\* numeric-looking text becomes a float; anything else is handed back
remove_comma(x) ==
    IF x.t = "str" THEN Normalized(SelectSeq(x.cs, LAMBDA c : c # ",")) ELSE x

\* is_float(value): the normalized value is a valid number
is_float(x) == IsNum(x)

(***************************************************************************)
(* Outcome of a call: a returned value, or a raised exception.             *)
(***************************************************************************)
Raise(e) == [exc |-> e]

Raised(r) == r.exc # ""

(***************************************************************************)
(* _compare_with_tolerance                                                 *)
(***************************************************************************)
epsilon == PyFloat(0, 1, <<10000, 10000, 100>>)

\* a number formatted for display; the characters are not computed
Fmt(spec, f) == [t |-> "fmt", spec |-> spec, f |-> f]

\* the validation written with "and": one valid operand is enough to go on
InvalidInputs_and(actual, expected) == ~is_float(expected) /\ ~is_float(actual)

InvalidInputs(actual, expected) == ~is_float(expected) \/ ~is_float(actual)

NearZero(expected) == FLt(FAbs(expected), epsilon)

diff_percent(diff, expected) ==
    IF NearZero(expected)
    THEN (IF FLt(diff, epsilon) THEN FZero ELSE PyFloat(0, 999999, <<>>))
    ELSE FMul(FDiv(diff, FAbs(expected)), PyFloat(0, 100, <<>>))

\* the bound without the near-zero case
tolerance_value_no_zero_case(expected, tol_frac) == FMul(tol_frac, FAbs(expected))

tolerance_value(expected, tol_frac) ==
    IF NearZero(expected) THEN FZero ELSE FMul(tol_frac, FAbs(expected))

\* res = diff <= tolerance_value
WithinBound(diff, tol) == FLe(diff, tol)

ToleranceResult(diff, tol, pct, tolerance_percent) ==
    [exc |-> "", res |-> WithinBound(diff, tol),
     diff |-> Fmt(".4f", diff),
     diff_percent |-> Fmt(".4f", pct),
     tolerance |-> [t |-> "fmt", spec |-> ".2f (.2f%)", f |-> tol,
                    pct |-> tolerance_percent]]

NumericCompare(diff, expected, tolerance_percent) ==
    ToleranceResult(diff, tolerance_value(expected, FDivInt(tolerance_percent, 100)),
                    diff_percent(diff, expected), tolerance_percent)

\* the comparison of the normalized operands
CompareNormalized(actual, expected, tolerance_percent) ==
    IF InvalidInputs(actual, expected)
    THEN [exc |-> "", res |-> FALSE, diff |-> PyNum(FZero),
          diff_percent |-> PyNum(FZero), tolerance |-> PyStr(<<>>)]
    ELSE IF ~IsNum(actual) \/ ~IsNum(expected) \/ ~IsNum(tolerance_percent)
    THEN Raise("TypeError")
    ELSE NumericCompare(FAbs(FSub(actual.f, expected.f)), expected.f, tolerance_percent.f)

_compare_with_tolerance(num1, num2, tolerance_percent) ==
    CompareNormalized(remove_comma(num1), remove_comma(num2), tolerance_percent)

(***************************************************************************)
(* Python dicts keep insertion order: the keys in order, and their values. *)
(***************************************************************************)
PyDict(keys, val) == [t |-> "dict", keys |-> keys, val |-> val]

EmptyDict == PyDict(<<>>, [k \in {} |-> PyNone])

Range(seq) == { seq[i] : i \in 1..Len(seq) }

InSeq(x, seq) == \E i \in 1..Len(seq) : seq[i] = x

HasKey(d, key) == InSeq(key, d.keys)

\* bool(x) of an optional list or dict argument
Truthy(x) ==
    CASE x.t = "none" -> FALSE
      [] x.t = "dict" -> x.keys # <<>>
      [] x.t \in {"list", "tuple", "set"} -> x.items # <<>>
      [] OTHER -> TRUE

(***************************************************************************)
(* The comparison operators of the operator module on Python values: a     *)
(* boolean, or the TypeError Python raises for operands it cannot compare. *)
(***************************************************************************)
Value(v) == [exc |-> "", v |-> v]

PyEq(a, b) == a.t = b.t /\ a = b

Alphabet ==
    <<" ", ",", "-", ".", "0", "1", "2", "3", "4", "5", "6", "7", "8", "9",
      "A", "B", "E", "F", "I", "L", "R", "S", "U", "V", "Y",
      "a", "b", "e", "f", "i", "l", "o", "p", "r", "s", "u", "v", "y">>

CharCode(c) == CHOOSE i \in 1..Len(Alphabet) : Alphabet[i] = c

RECURSIVE TextOrder(_, _)
\* -1, 0, 1 as text x sorts before, with, after text y
TextOrder(x, y) ==
    IF x = <<>> THEN (IF y = <<>> THEN 0 ELSE -1)
    ELSE IF y = <<>> THEN 1
    ELSE IF CharCode(x[1]) < CharCode(y[1]) THEN -1
    ELSE IF CharCode(x[1]) > CharCode(y[1]) THEN 1
    ELSE TextOrder(Tail(x), Tail(y))

\* -1, 0, 1, or 2 when Python does not order the two values
ScalarOrder(a, b) ==
    IF a.t = "num" /\ b.t = "num" THEN FCmp(a.f, b.f)
    ELSE IF a.t = "str" /\ b.t = "str" THEN TextOrder(a.cs, b.cs)
    ELSE 2

RECURSIVE ItemsOrder(_, _)
\* sequences are ordered by their first differing items
ItemsOrder(x, y) ==
    IF x = <<>> THEN (IF y = <<>> THEN 0 ELSE -1)
    ELSE IF y = <<>> THEN 1
    ELSE IF PyEq(x[1], y[1]) THEN ItemsOrder(Tail(x), Tail(y))
    ELSE ScalarOrder(x[1], y[1])

PyOrder(a, b) ==
    IF a.t = b.t /\ a.t \in {"list", "tuple"} THEN ItemsOrder(a.items, b.items)
    ELSE ScalarOrder(a, b)

\* the characters of the keys the dicts of the model use
KeyText(key) ==
    CASE key = "price" -> <<"p", "r", "i", "c", "e">>
      [] key = "side"  -> <<"s", "i", "d", "e">>
      [] key = "sl"    -> <<"s", "l">>

IsSubText(x, y) ==
    \E i \in 0..(Len(y) - Len(x)) : SubSeq(y, i + 1, i + Len(x)) = x

\* item in container
PyIn(item, container) ==
    CASE container.t = "str" ->
             IF item.t = "str" THEN Value(IsSubText(item.cs, container.cs))
             ELSE Raise("TypeError")
      [] container.t \in {"list", "tuple"} ->
             Value(\E i \in 1..Len(container.items) : PyEq(container.items[i], item))
      [] container.t = "set" ->
             IF item.t \in {"list", "dict"} THEN Raise("TypeError")
             ELSE Value(\E i \in 1..Len(container.items) : PyEq(container.items[i], item))
      [] container.t = "dict" ->
             IF item.t \in {"list", "dict", "set"} THEN Raise("TypeError")
             ELSE Value(item.t = "str" /\ \E i \in 1..Len(container.keys) :
                                             KeyText(container.keys[i]) = item.cs)
      [] OTHER -> Raise("TypeError")

Ordered(a, b, ok) ==
    LET o == PyOrder(a, b) IN IF o = 2 THEN Raise("TypeError") ELSE Value(o \in ok)

\* assert_op(a, b) for the operators the assertions pass
ApplyOp(op, a, b) ==
    CASE op = "eq" -> Value(PyEq(a, b))
      [] op = "ne" -> Value(~PyEq(a, b))
      [] op = "lt" -> Ordered(a, b, {-1})
      [] op = "le" -> Ordered(a, b, {-1, 0})
      [] op = "gt" -> Ordered(a, b, {1})
      [] op = "ge" -> Ordered(a, b, {0, 1})
      [] op = "contains" -> PyIn(b, a)

(***************************************************************************)
(* _compare_dict                                                           *)
(***************************************************************************)
\* the global percentage tried before the per-field mapping
Strategy_global_first(key, tolerance_percent, tolerance_fields, tolerance_map) ==
    IF /\ tolerance_percent.t # "none"
       /\ Truthy(tolerance_fields)
       /\ InSeq(key, tolerance_fields.items)
    THEN "global"
    ELSE IF Truthy(tolerance_map) /\ HasKey(tolerance_map, key) THEN "map"
    ELSE "op"

\* how one key of expected that actual holds is compared
Strategy(key, tolerance_percent, tolerance_fields, tolerance_map) ==
    IF Truthy(tolerance_map) /\ HasKey(tolerance_map, key) THEN "map"
    ELSE IF /\ tolerance_percent.t # "none"
            /\ Truthy(tolerance_fields)
            /\ InSeq(key, tolerance_fields.items)
    THEN "global"
    ELSE "op"

\* the percentage a key compared with tolerance is compared with
FieldTolerance(how, key, tolerance_percent, tolerance_map) ==
    IF how = "map" THEN tolerance_map.val[key] ELSE tolerance_percent

OpOutcome(o) == IF Raised(o) THEN o ELSE [exc |-> "", res |-> o.v, tol |-> FALSE]

ToleranceOutcome(r) ==
    IF Raised(r) THEN r
    ELSE [exc |-> "", res |-> r.res, tol |-> TRUE,
          info |-> [diff_percent |-> r.diff_percent, tolerance |-> r.tolerance]]

KeyOutcome(how, key, act, exp, tolerance_percent, tolerance_map, assert_op) ==
    IF how = "op" THEN OpOutcome(ApplyOp(assert_op, act, exp))
    ELSE ToleranceOutcome(_compare_with_tolerance(
             act, exp, FieldTolerance(how, key, tolerance_percent, tolerance_map)))

\* the outcome for one key: res, and the tolerance_info entry if there is one
CompareKey(key, act, exp, tolerance_percent, tolerance_fields, tolerance_map, assert_op) ==
    KeyOutcome(Strategy(key, tolerance_percent, tolerance_fields, tolerance_map),
               key, act, exp, tolerance_percent, tolerance_map, assert_op)

\* a missing key also listed among the differing keys
OnMissingKey_listed(acc, key) ==
    [acc EXCEPT !.compare_res = Append(@, FALSE), !.diff_keys = Append(@, key)]

\* a key of expected that actual lacks: the comparison failed, nothing else
OnMissingKey(acc, key) == [acc EXCEPT !.compare_res = Append(@, FALSE)]

\* a compared key: its result, its place among the differing keys, its info
OnComparedKey(acc, key, c) ==
    IF Raised(c) THEN c
    ELSE [exc |-> "",
          compare_res |-> Append(acc.compare_res, c.res),
          diff_keys |-> IF c.res THEN acc.diff_keys ELSE Append(acc.diff_keys, key),
          tolerance_info |-> IF c.tol THEN (key :> c.info) @@ acc.tolerance_info
                             ELSE acc.tolerance_info]

\* one pass of the loop body
LoopBody(acc, key, actual, expected, tolerance_percent, tolerance_fields, tolerance_map, assert_op) ==
    IF ~HasKey(actual, key) THEN OnMissingKey(acc, key)
    ELSE OnComparedKey(acc, key,
                       CompareKey(key, actual.val[key], expected.val[key],
                                  tolerance_percent, tolerance_fields, tolerance_map,
                                  assert_op))

RECURSIVE CompareLoop(_, _, _, _, _, _, _, _)
\* the loop over expected's keys from the i-th on; acc is what the loop has built
\* (compare_res, diff_keys, tolerance_info), or the exception that ended it
CompareLoop(i, acc, actual, expected, tolerance_percent, tolerance_fields, tolerance_map, assert_op) ==
    IF Raised(acc) \/ i > Len(expected.keys) THEN acc
    ELSE CompareLoop(i + 1,
                     LoopBody(acc, expected.keys[i], actual, expected, tolerance_percent,
                              tolerance_fields, tolerance_map, assert_op),
                     actual, expected, tolerance_percent, tolerance_fields,
                     tolerance_map, assert_op)

Missing(actual, expected) == SelectSeq(expected.keys, LAMBDA k : ~HasKey(actual, k))

Redundant(actual, expected) == SelectSeq(actual.keys, LAMBDA k : ~HasKey(expected, k))

All(bools) == \A i \in 1..Len(bools) : bools[i]

\* the overall result without the redundant keys
OverallRes_no_redundant(compare_res, missing, redundant) ==
    All(compare_res) /\ missing = <<>>

\* all(compare_res) and not missing and not redundant
OverallRes(compare_res, missing, redundant) ==
    All(compare_res) /\ missing = <<>> /\ redundant = <<>>

\* whether the result gets its tolerance_info entry
WithToleranceInfo(tolerance_percent, tolerance_fields, tolerance_map) ==
    (tolerance_percent.t # "none" /\ Truthy(tolerance_fields)) \/ Truthy(tolerance_map)

DictResult(loop, missing, redundant, with_info) ==
    IF Raised(loop) THEN loop
    ELSE IF with_info
    THEN [exc |-> "", res |-> OverallRes(loop.compare_res, missing, redundant),
          missing |-> missing, redundant |-> redundant, diff |-> loop.diff_keys,
          tolerance_info |-> loop.tolerance_info]
    ELSE [exc |-> "", res |-> OverallRes(loop.compare_res, missing, redundant),
          missing |-> missing, redundant |-> redundant, diff |-> loop.diff_keys]

_compare_dict(actual, expected, tolerance_percent, tolerance_fields, tolerance_map, assert_op) ==
    DictResult(CompareLoop(1, [exc |-> "", compare_res |-> <<>>, diff_keys |-> <<>>,
                               tolerance_info |-> [k \in {} |-> PyNone]],
                           actual, expected, tolerance_percent, tolerance_fields,
                           tolerance_map, assert_op),
               Missing(actual, expected), Redundant(actual, expected),
               WithToleranceInfo(tolerance_percent, tolerance_fields, tolerance_map))

(***************************************************************************)
(* The process-wide registries as the classes define them.                 *)
(***************************************************************************)
NoDriver == [t |-> "none"]

RegistriesInit ==
    /\ test_steps = <<>>
    /\ all_failed_logs = <<>>
    /\ failed_logs_dict = [id \in {} |-> <<>>]
    /\ TEST_ID = ""
    /\ driver_list = <<>>
    /\ web_driver = NoDriver
    /\ quit_drivers = {}
    /\ check_log = <<>>
    /\ screenshots = <<>>
    /\ attachments = <<>>

\* no retrying wrapper is running
RetryInit ==
    /\ attempt = 0
    /\ issued = <<>>
    /\ slept = <<>>

Pending == [exc |-> "pending"]

(***************************************************************************)
(* SpecTol: _compare_with_tolerance applied to each input of a bounded set *)
(***************************************************************************)
Text(cs) == PyStr(cs)

TolExpecteds ==
    { Dec(0, 0, 0), Dec(0, 5, 11), Dec(1, 5, 11), Dec(0, 100, 0), Dec(0, 1003, 1),
      Dec(0, 3, 1), Dec(1, 1003, 1), Dec(0, 123456, 2),
      Text(<<"1", ",", "0", "0", "3", ".", "0">>), Text(<<"B", "U", "Y">>), PyNone }

TolPercents ==
    { Dec(0, 0, 0), Dec(0, 1, 1), Dec(0, 1, 0), Dec(0, 5, 0), Dec(0, 10, 0),
      Dec(0, 50, 0), Dec(0, 1000, 0), Dec(1, 1, 0), PyNone }

TolActuals ==
    { Dec(0, 0, 0), Dec(0, 5, 1), Dec(0, 5, 11), Dec(0, 51, 12), Dec(0, 100, 0),
      Dec(0, 101, 0), Dec(0, 1003, 1), Dec(0, 101303, 3), Dec(0, 105315, 3),
      Dec(0, 11033, 2), Dec(0, 110, 0), Dec(0, 303, 3), Dec(1, 1003, 1),
      Dec(1, 101303, 3), Text(<<"1", ",", "0", "1", "3", ".", "0", "3">>),
      Text(<<"1", ".", "2", ".", "3">>), Text(<<"B", "U", "Y">>), PyNone }

\* e + t/100*e as a caller computes it
Boundary(e, t) == FAdd(e, FMul(FDivInt(t, 100), e))

BoundaryActuals(e, t) ==
    IF IsNum(e) /\ IsNum(t) THEN {PyNum(Boundary(e.f, t.f))} ELSE {}

TolCall(a, e, t) ==
    [fn |-> "_compare_with_tolerance", num1 |-> a, num2 |-> e, tolerance_percent |-> t]

InitTol ==
    /\ pc = "ready"
    /\ call \in UNION { { TolCall(a, e, t) : a \in TolActuals \cup BoundaryActuals(e, t) } :
                        e \in TolExpecteds, t \in TolPercents }
    /\ ret = Pending
    /\ RegistriesInit
    /\ RetryInit

CompareWithTolerance ==
    /\ pc = "ready"
    /\ call.fn = "_compare_with_tolerance"
    /\ ret' = _compare_with_tolerance(call.num1, call.num2, call.tolerance_percent)
    /\ pc' = "done"
    /\ UNCHANGED <<call, registries, retry>>

NextTol == CompareWithTolerance

SpecTol == InitTol /\ [][NextTol]_vars

(***************************************************************************)
(* Properties of _compare_with_tolerance (SpecTol)                         *)
(***************************************************************************)
TolDone == pc = "done" /\ call.fn = "_compare_with_tolerance"

\* -1, 0, 1 as x * 2^ex <, =, > y * 2^ey
CmpScaled(x, ex, y, ey) ==
    LET c == Min(ex, ey) IN CmpB(ShL(x, ex - c), ShL(y, ey - c))

\* |a - b| as an exact binary fraction n * 2^e
ExactDiff(a, b) ==
    LET e0 == Min(a.e, b.e)
        na == ShL(a.m, a.e - e0)
        nb == ShL(b.m, b.e - e0)
    IN  [n |-> IF a.s # b.s THEN AddB(na, nb)
               ELSE IF CmpB(na, nb) >= 0 THEN SubB(na, nb) ELSE SubB(nb, na),
         e |-> e0]

\* |a - e| <= (t/100) * |e| over the reals, for t >= 0: 100 * |a - e| <= t * |e|
ExactWithin(a, e, t) ==
    LET d == ExactDiff(a, e)
    IN  CmpScaled(MulSmall(d.n, 100), d.e, MulB(t.m, e.m), t.e + e.e) <= 0

\* C1: for numeric a and e with |e| >= epsilon and t >= 0 the comparison passes
\* exactly when |a - e| <= (t/100) * |e|, and the value a = e + t/100*e on the
\* tolerance bound passes.
C1_PassIffWithinTolerance ==
    (/\ TolDone
     /\ IsNum(call.num1) /\ IsNum(call.num2) /\ IsNum(call.tolerance_percent)
     /\ call.tolerance_percent.f.s = 0
     /\ ~NearZero(call.num2.f))
    => /\ ~Raised(ret)
       /\ ret.res <=> ExactWithin(call.num1.f, call.num2.f, call.tolerance_percent.f)
       /\ call.num1.f = Boundary(call.num2.f, call.tolerance_percent.f) => ret.res

\* C2: when |expected| < epsilon the tolerance bound is 0 whatever the percentage:
\* the comparison passes only for actual = expected, so (0, 0, t) passes and
\* (a, 0, t) fails for every a # 0.
C2_ZeroExpectedBoundIsZero ==
    LET actual   == remove_comma(call.num1)
        expected == remove_comma(call.num2)
    IN  (/\ TolDone
         /\ IsNum(actual) /\ IsNum(expected) /\ IsNum(call.tolerance_percent)
         /\ CmpScaled(expected.f.m, expected.f.e, epsilon.m, epsilon.e) < 0)
        => /\ ~Raised(ret)
           /\ ret.tolerance.f = FZero
           /\ ret.res <=> actual.f = expected.f
           /\ (IsZero(expected.f) /\ IsZero(actual.f)) => ret.res
           /\ (IsZero(expected.f) /\ ~IsZero(actual.f)) => ~ret.res

C2_Witness ==
    /\ TolDone
    /\ call.num2 = Dec(0, 0, 0) /\ call.num1 = Dec(0, 5, 1)
    /\ call.tolerance_percent = Dec(0, 1000, 0)
    /\ ~Raised(ret) /\ ~ret.res

MaxKeys == 2

DictKeys == {"price", "side", "sl"}

FieldValues(key) ==
    CASE key = "price" -> { Dec(0, 1003, 1), Dec(0, 11033, 2),
                            Text(<<"1", "0", "0", ".", "3">>) }
      [] key = "side"  -> { Text(<<"B", "U", "Y">>), Text(<<"B", "U">>) }
      [] key = "sl"    -> { Dec(0, 0, 0) }

AllFieldValues == UNION { FieldValues(k) : k \in DictKeys }

KeySeqs(n) ==
    { ks \in UNION { [1..m -> DictKeys] : m \in 0..n } :
        \A i, j \in 1..Len(ks) : i # j => ks[i] # ks[j] }

DictsOn(ks) ==
    { PyDict(ks, v) : v \in { f \in [Range(ks) -> AllFieldValues] :
                                \A k \in Range(ks) : f[k] \in FieldValues(k) } }

Dicts(n) == UNION { DictsOn(ks) : ks \in KeySeqs(n) }

Pct(n) == Dec(0, n, 0)

Fields(items) == PyList(items)

Map1(key, pct) == PyDict(<<key>>, (key :> pct))

ToleranceArgs(p, f, m, op) ==
    [tolerance_percent |-> p, tolerance_fields |-> f, tolerance_map |-> m, assert_op |-> op]

\* the optional arguments the calls are made with
DictConfigs ==
    { ToleranceArgs(PyNone, PyNone, PyNone, "eq"),
      ToleranceArgs(PyNone, PyNone, PyNone, "ne"),
      ToleranceArgs(PyNone, PyNone, PyNone, "contains"),
      ToleranceArgs(Pct(1), PyNone, PyNone, "eq"),
      ToleranceArgs(PyNone, Fields(<<"price">>), PyNone, "eq"),
      ToleranceArgs(Pct(1), Fields(<<"price">>), PyNone, "eq"),
      ToleranceArgs(Pct(50), Fields(<<"price">>), PyNone, "eq"),
      ToleranceArgs(Pct(1), Fields(<<"price", "side">>), PyNone, "eq"),
      ToleranceArgs(Pct(1), Fields(<<"sl">>), PyNone, "eq"),
      ToleranceArgs(Dec(1, 1, 0), Fields(<<"price">>), PyNone, "eq"),
      ToleranceArgs(PyNone, PyNone, Map1("price", Pct(1)), "eq"),
      ToleranceArgs(PyNone, PyNone, Map1("price", PyNone), "eq"),
      ToleranceArgs(Pct(50), Fields(<<"price">>), Map1("price", Pct(1)), "eq"),
      ToleranceArgs(Pct(50), Fields(<<"side">>), Map1("sl", Pct(1)), "ne") }

DictCall(a, e, c) ==
    [fn |-> "_compare_dict", actual |-> a, expected |-> e,
     tolerance_percent |-> c.tolerance_percent, tolerance_fields |-> c.tolerance_fields,
     tolerance_map |-> c.tolerance_map, assert_op |-> c.assert_op]

InitDict ==
    /\ pc = "ready"
    /\ call \in { DictCall(a, e, c) : a \in Dicts(MaxKeys), e \in Dicts(MaxKeys),
                                      c \in DictConfigs }
    /\ ret = Pending
    /\ RegistriesInit
    /\ RetryInit

CompareDict ==
    /\ pc = "ready"
    /\ call.fn = "_compare_dict"
    /\ ret' = _compare_dict(call.actual, call.expected, call.tolerance_percent,
                            call.tolerance_fields, call.tolerance_map, call.assert_op)
    /\ pc' = "done"
    /\ UNCHANGED <<call, registries, retry>>

NextDict == CompareDict

SpecDict == InitDict /\ [][NextDict]_vars

(***************************************************************************)
(* Properties of _compare_dict (SpecDict)                                  *)
(***************************************************************************)
DictDone == pc = "done" /\ call.fn = "_compare_dict"

Returned == DictDone /\ ~Raised(ret)

\* the keys of expected that actual holds too
CommonKeys == { k \in Range(call.expected.keys) : k \in Range(call.actual.keys) }

InMap(k) ==
    /\ call.tolerance_map.t = "dict"
    /\ call.tolerance_map.keys # <<>>
    /\ k \in Range(call.tolerance_map.keys)

InFields(k) ==
    /\ call.tolerance_percent.t # "none"
    /\ call.tolerance_fields.t = "list"
    /\ k \in Range(call.tolerance_fields.items)

\* whether the comparison selected for key k passed
KeyPasses(k) ==
    CompareKey(k, call.actual.val[k], call.expected.val[k], call.tolerance_percent,
               call.tolerance_fields, call.tolerance_map, call.assert_op).res

Position(k, seq) == CHOOSE i \in 1..Len(seq) : seq[i] = k

\* sub lists items of seq, each once, in the order seq has them
InOrderOf(sub, seq) ==
    /\ \A i \in 1..Len(sub) : InSeq(sub[i], seq)
    /\ \A i, j \in 1..Len(sub) : i < j => Position(sub[i], seq) < Position(sub[j], seq)

InfoKeys == IF "tolerance_info" \in DOMAIN ret THEN DOMAIN ret.tolerance_info ELSE {}

\* C4: for a non-empty dict d and any tolerance arguments, comparing d with d
\* passes, with empty missing, redundant and diff lists.
C4_ReflexiveForAnyToleranceArgs ==
    (/\ DictDone
     /\ call.actual = call.expected
     /\ call.actual.keys # <<>>
     /\ call.assert_op = "eq")
    => /\ ~Raised(ret)
       /\ ret.res
       /\ ret.missing = <<>> /\ ret.redundant = <<>> /\ ret.diff = <<>>

\* C5: missing lists exactly the keys of expected that actual lacks, in expected's
\* order, and any missing key fails the comparison; diff lists exactly the keys
\* in both dicts whose comparison failed, in expected's order; no key is in both
\* lists.
C5_MissingAndDiffClassification ==
    Returned
    => /\ Range(ret.missing) = Range(call.expected.keys) \ Range(call.actual.keys)
       /\ InOrderOf(ret.missing, call.expected.keys)
       /\ ret.missing # <<>> => ~ret.res
       /\ Range(ret.diff) = { k \in CommonKeys : ~KeyPasses(k) }
       /\ InOrderOf(ret.diff, call.expected.keys)
       /\ Range(ret.missing) \cap Range(ret.diff) = {}

C5_Witness ==
    /\ Returned
    /\ call.expected.keys = <<"side", "price">>
    /\ call.actual.keys = <<"side">>
    /\ call.assert_op = "eq"
    /\ ret.missing = <<"price">>
    /\ ret.diff = <<"side">>
    /\ ~ret.res

\* C6: the comparison passes exactly when every key in both dicts passes, no key
\* of expected is missing from actual and no key of actual is absent from
\* expected; redundant lists the keys of actual absent from expected, and one
\* such key is enough to fail.
C6_OverallResult ==
    Returned
    => /\ ret.res <=> /\ \A k \in CommonKeys : KeyPasses(k)
                      /\ Range(call.expected.keys) \subseteq Range(call.actual.keys)
                      /\ Range(call.actual.keys) \subseteq Range(call.expected.keys)
       /\ Range(ret.redundant) = Range(call.actual.keys) \ Range(call.expected.keys)
       /\ InOrderOf(ret.redundant, call.actual.keys)
       /\ ret.redundant # <<>> => ~ret.res

C6_Witness ==
    /\ Returned
    /\ call.expected.keys = <<"price">>
    /\ call.actual.keys = <<"price", "side">>
    /\ call.actual.val["price"] = call.expected.val["price"]
    /\ call.assert_op = "eq"
    /\ ret.missing = <<>> /\ ret.diff = <<>>
    /\ ret.redundant = <<"side">>
    /\ ~ret.res

\* what the result holds for key k when it was compared with tolerance pct
ComparedWithTolerance(k, pct) ==
    LET r == _compare_with_tolerance(call.actual.val[k], call.expected.val[k], pct)
    IN  /\ k \in InfoKeys
        /\ ret.tolerance_info[k] = [diff_percent |-> r.diff_percent,
                                    tolerance |-> r.tolerance]
        /\ InSeq(k, ret.diff) <=> ~r.res

\* what the result holds for key k when it was compared with assert_op
ComparedWithOp(k) ==
    /\ k \notin InfoKeys
    /\ InSeq(k, ret.diff)
           <=> ~ApplyOp(call.assert_op, call.actual.val[k], call.expected.val[k]).v

\* C7: a key with a tolerance_map entry is compared with that entry's percentage,
\* also when it is listed in tolerance_fields with a global percentage; the
\* global percentage is used for the keys of tolerance_fields without an entry,
\* and assert_op for the keys covered by neither.
C7_TolerancePrecedence ==
    Returned
    => \A k \in CommonKeys :
          /\ InMap(k) => ComparedWithTolerance(k, call.tolerance_map.val[k])
          /\ (~InMap(k) /\ InFields(k)) => ComparedWithTolerance(k, call.tolerance_percent)
          /\ (~InMap(k) /\ ~InFields(k)) => ComparedWithOp(k)

C7_Witness ==
    /\ Returned
    /\ InMap("price") /\ InFields("price")
    /\ call.tolerance_map.val["price"] = Pct(1)
    /\ call.tolerance_percent = Pct(50)
    /\ call.actual = PyDict(<<"price">>, ("price" :> Dec(0, 11033, 2)))
    /\ call.expected = PyDict(<<"price">>, ("price" :> Dec(0, 1003, 1)))
    /\ ret.diff = <<"price">>
    /\ ret.tolerance_info["price"].tolerance.pct = Pct(1).f

\* C8: the result has a tolerance_info entry only when some compared key was
\* compared with tolerance; otherwise the entry is left out.
C8_ToleranceInfoOnlyWhenApplied ==
    Returned
    => ("tolerance_info" \in DOMAIN ret <=> \E k \in CommonKeys : InMap(k) \/ InFields(k))

(***************************************************************************)
(* The soft assertions.  R is the record of the registries a call works    *)
(* on, with the call's exception (exc) and returned value (value).         *)
(***************************************************************************)
Regs ==
    [exc |-> "", value |-> PyNone,
     test_steps |-> test_steps, all_failed_logs |-> all_failed_logs,
     failed_logs_dict |-> failed_logs_dict, TEST_ID |-> TEST_ID,
     driver_list |-> driver_list, check_log |-> check_log,
     screenshots |-> screenshots, attachments |-> attachments]

Throw(R, e) == [R EXCEPT !.exc = e]

Returning(R, v) == IF Raised(R) THEN R ELSE [R EXCEPT !.value = v]

LowerChar(c) ==
    CASE c = "A" -> "a" [] c = "B" -> "b" [] c = "E" -> "e" [] c = "F" -> "f"
      [] c = "I" -> "i" [] c = "L" -> "l" [] c = "R" -> "r" [] c = "S" -> "s"
      [] c = "U" -> "u" [] c = "V" -> "v" [] c = "Y" -> "y" [] OTHER -> c

\* str.lower()
Lower(cs) == [i \in 1..Len(cs) |-> LowerChar(cs[i])]

\* [item.lower() for item in test_steps if "verify" in item.lower()]
VerifySteps(steps) ==
    SelectSeq([i \in 1..Len(steps) |-> Lower(steps[i])],
              LAMBDA item : IsSubText(<<"v", "e", "r", "i", "f", "y">>, item))

\* StepLogs.add_failed_log: the append to all_failed_logs comes first
add_failed_log(R, msg_log, failed_detail) ==
    IF R.TEST_ID \in DOMAIN R.failed_logs_dict
    THEN [R EXCEPT !.all_failed_logs = Append(@, <<msg_log, failed_detail>>),
                   !.failed_logs_dict[R.TEST_ID] = Append(@, <<msg_log, failed_detail>>)]
    ELSE [R EXCEPT !.all_failed_logs = Append(@, <<msg_log, failed_detail>>),
                   !.exc = "KeyError"]

RecordFailedStep(R, verify_steps, error_message) ==
    IF verify_steps # <<>>
    THEN add_failed_log(R, verify_steps[Len(verify_steps)], error_message)
    ELSE R

\* a screenshot is asked of every driver of driver_list, then the last verify
\* step is recorded as failed
_handle_failure(R, error_message) ==
    IF R.test_steps # <<>>
    THEN RecordFailedStep([R EXCEPT !.screenshots = @ \o R.driver_list],
                          VerifySteps(R.test_steps), error_message)
    ELSE [R EXCEPT !.screenshots = @ \o R.driver_list]

\* check.equal(res, True, msg) and the handling of a failed check
Report(R, res, msg) ==
    IF res THEN [R EXCEPT !.check_log = Append(@, [passed |-> TRUE, msg |-> msg])]
    ELSE _handle_failure([R EXCEPT !.check_log = Append(@, [passed |-> FALSE, msg |-> msg])],
                         msg)

DiffDict(item, diff_keys) ==
    PyDict(diff_keys, [k \in Range(diff_keys) |->
                          IF HasKey(item, k) THEN item.val[k] ELSE PyStr(<<>>)])

_extract_diff_list(actual, expected, diff_keys) ==
    <<DiffDict(actual, diff_keys), DiffDict(expected, diff_keys)>>

\* the validation message of a dict comparison
DictMessage(actual, expected, result) ==
    [kind |-> "dict", missing |-> result.missing, redundant |-> result.redundant,
     diff |-> IF result.diff # <<>> THEN _extract_diff_list(actual, expected, result.diff)
              ELSE <<>>]

\* error_message or the two values
SimpleMessage(a) ==
    IF a.error_message # "" THEN [kind |-> "custom", text |-> a.error_message]
    ELSE [kind |-> "values", actual |-> a.actual, expected |-> a.expected]

IsCollection(x) == x.t \in {"list", "tuple", "set"}

IsDict(x) == x.t = "dict"

RECURSIVE ContainsAll(_, _, _)
\* all(item in actual for item in expected), from the i-th item of expected on
ContainsAll(actual, expected, i) ==
    IF i > Len(expected.items) THEN Value(TRUE)
    ELSE IF Raised(PyIn(expected.items[i], actual)) THEN PyIn(expected.items[i], actual)
    ELSE IF ~PyIn(expected.items[i], actual).v THEN Value(FALSE)
    ELSE ContainsAll(actual, expected, i + 1)

\* an exception of the membership test is a failed test
Swallowed(o) == IF Raised(o) THEN Value(FALSE) ELSE o

\* the membership test alone, for collections too
ContainsResult_single_member(actual, expected) == Swallowed(PyIn(expected, actual))

\* the contains branch of the simple values
ContainsResult(actual, expected) ==
    IF IsCollection(actual) /\ IsCollection(expected) THEN ContainsAll(actual, expected, 1)
    ELSE Swallowed(PyIn(expected, actual))

ToleranceVerdict(r) == IF Raised(r) THEN r ELSE Value(r.res)

\* assertion_result of the simple values
AssertionResult(a) ==
    IF a.tolerance_percent.t # "none"
    THEN ToleranceVerdict(_compare_with_tolerance(a.actual, a.expected, a.tolerance_percent))
    ELSE IF a.assert_op = "contains" THEN ContainsResult(a.actual, a.expected)
    ELSE ApplyOp(a.assert_op, a.actual, a.expected)

DictPath(R, a, result) ==
    IF Raised(result) THEN Throw(R, result.exc)
    ELSE Returning(Report(R, result.res, DictMessage(a.actual, a.expected, result)), result)

SimplePath(R, a, o) ==
    IF Raised(o) THEN Throw(R, o.exc)
    ELSE Returning(Report(R, o.v, SimpleMessage(a)), o.v)

\* the body of _soft_assert
SoftAssertBody(R, a) ==
    IF IsDict(a.actual) /\ IsDict(a.expected)
    THEN DictPath(R, a, _compare_dict(a.actual, a.expected, a.tolerance_percent,
                                      a.tolerance_fields, a.tolerance_map, a.assert_op))
    ELSE SimplePath(R, a, AssertionResult(a))

\* {k: v for k, v in actual.items() if k in expected}
OnlyKeysOf(actual, expected) ==
    PyDict(SelectSeq(actual.keys, LAMBDA k : HasKey(expected, k)),
           [k \in { x \in Range(actual.keys) : HasKey(expected, x) } |-> actual.val[k]])

\* the percentage the table is attached with
TablePercent(a) ==
    IF a.tolerance_percent.t = "none" /\ Truthy(a.tolerance_map)
    THEN a.tolerance_map.val[a.tolerance_map.keys[1]]
    ELSE a.tolerance_percent

TableTitle(steps) == IF steps # <<>> THEN <<steps[Len(steps)]>> ELSE <<>>

\* the wrapper's work once the wrapped call has returned
AttachTable(R, a) ==
    IF Raised(R) THEN R
    ELSE IF IsDict(a.actual) /\ IsDict(a.expected)
    THEN [R EXCEPT !.attachments =
             Append(@, [actual |-> IF a.assert_op = "contains"
                                   THEN OnlyKeysOf(a.actual, a.expected) ELSE a.actual,
                        expected |-> a.expected,
                        tolerance_percent |-> TablePercent(a),
                        tolerance_fields |-> a.tolerance_fields,
                        title |-> TableTitle(R.test_steps),
                        comparison_result |-> R.value])]
    ELSE R

\* _soft_assert as its callers get it: the body, then the wrapper's attachment
_soft_assert(R, a) == AttachTable(SoftAssertBody(R, a), a)

Args(actual, expected, assert_op, error_message, tolerance_percent, tolerance_fields, tolerance_map) ==
    [actual |-> actual, expected |-> expected, assert_op |-> assert_op,
     error_message |-> error_message, tolerance_percent |-> tolerance_percent,
     tolerance_fields |-> tolerance_fields, tolerance_map |-> tolerance_map]

assert_contains(R, actual, expected, error_message) ==
    IF IsDict(actual) \/ IsDict(expected) THEN Throw(R, "TypeError")
    ELSE _soft_assert(R, Args(actual, expected, "contains", error_message,
                              PyNone, PyNone, PyNone))

assert_dict(R, actual, expected, error_message, tolerance_percent, tolerance_fields, tolerance_map) ==
    IF ~IsDict(actual) \/ ~IsDict(expected) THEN Throw(R, "TypeError")
    ELSE _soft_assert(R, Args(actual, expected, "eq", error_message, tolerance_percent,
                              tolerance_fields, tolerance_map))

(***************************************************************************)
(* Spec: a test session.  Steps are logged, drivers opened and quit, and   *)
(* assertions made, in any order.                                          *)
(***************************************************************************)
\* the steps logged, drivers opened and checks reported in one session
MaxOps == 2

Ops == Len(test_steps) + Len(driver_list) + Len(check_log)

StepLabels == { <<"V", "E", "R", "I", "F", "Y", " ", "S", "L">>, <<"B", "u", "y">> }

Platforms == {"web", "ios"}

Num(n) == Dec(0, n, 0)

Buy == Text(<<"B", "U", "Y">>)

Bu == Text(<<"B", "U">>)

Price == Dec(0, 1003, 1)

Dict1(k, v) == PyDict(<<k>>, (k :> v))

Dict2(k1, v1, k2, v2) == PyDict(<<k1, k2>>, (k1 :> v1) @@ (k2 :> v2))

PlainArgs(actual, expected, assert_op) ==
    Args(actual, expected, assert_op, "", PyNone, PyNone, PyNone)

\* the calls of _soft_assert
SoftAssertInputs ==
    { PlainArgs(Dict2("side", Buy, "price", Price), Dict1("side", Buy), "contains"),
      PlainArgs(Dict1("side", Buy), Dict1("side", Buy), "contains"),
      PlainArgs(Dict1("side", Buy), Dict1("side", Bu), "contains"),
      PlainArgs(Dict1("side", Buy), Dict2("side", Buy, "price", Price), "contains"),
      PlainArgs(Dict1("price", Price), Dict1("price", Price), "contains"),
      PlainArgs(Buy, Price, "lt"),
      Args(Dec(0, 11033, 2), Price, "eq", "", Pct(50), PyNone, PyNone) }

\* the calls of assert_contains: actual, expected, error_message
ContainsInputs ==
    { <<PyList(<<Num(1), Num(2), Num(3)>>), PyList(<<Num(2), Num(3)>>), "">>,
      <<PyList(<<Num(1), Num(2), Num(3)>>), PyList(<<Num(4)>>), "not listed">>,
      <<PyList(<<PyList(<<Num(2), Num(3)>>), Num(1)>>), PyList(<<Num(2), Num(3)>>), "">>,
      <<[t |-> "tuple", items |-> <<Num(1), Num(2)>>],
        [t |-> "set", items |-> <<Num(2)>>], "">>,
      <<[t |-> "set", items |-> <<Num(1), Num(2)>>],
        [t |-> "tuple", items |-> <<PyList(<<Num(1)>>)>>], "">>,
      <<Buy, Bu, "">>,
      <<Price, Bu, "">>,
      <<Dict1("side", Buy), Bu, "">> }

\* the calls of assert_dict: actual, expected, and the tolerance arguments
AssertDictInputs ==
    { <<Dict1("price", Dec(0, 11033, 2)), Dict1("price", Price),
        ToleranceArgs(Pct(50), Fields(<<"price">>), PyNone, "eq")>>,
      <<Dict1("price", Dec(0, 11033, 2)), Dict1("price", Price),
        ToleranceArgs(PyNone, PyNone, Map1("price", Pct(1)), "eq")>>,
      <<Buy, Dict1("side", Buy), ToleranceArgs(PyNone, PyNone, PyNone, "eq")>> }

Init ==
    /\ pc = "session"
    /\ call = [fn |-> "none"]
    /\ ret = Pending
    /\ RegistriesInit
    /\ RetryInit

\* what a call leaves behind: its outcome and the registries it worked on
Finish(R, c) ==
    /\ call' = c
    /\ ret' = IF Raised(R) THEN Raise(R.exc) ELSE [exc |-> "", v |-> R.value]
    /\ all_failed_logs' = R.all_failed_logs
    /\ failed_logs_dict' = R.failed_logs_dict
    /\ check_log' = R.check_log
    /\ screenshots' = R.screenshots
    /\ attachments' = R.attachments
    /\ test_steps' = R.test_steps
    /\ driver_list' = R.driver_list
    /\ TEST_ID' = R.TEST_ID
    /\ UNCHANGED <<pc, web_driver, quit_drivers, retry>>

\* StepLogs.init_test_logs
InitTestLogs ==
    /\ failed_logs_dict' = (TEST_ID :> <<>>) @@ failed_logs_dict
    /\ call' = [fn |-> "init_test_logs"]
    /\ ret' = [exc |-> "", v |-> PyNone]
    /\ UNCHANGED <<pc, test_steps, all_failed_logs, TEST_ID, driver_list, web_driver,
                   quit_drivers, retry,
                   check_log, screenshots, attachments>>

\* StepLogs.add_step: steps_with_time has the keys init_test_logs gave
\* failed_logs_dict, and the step is appended before the timed list is looked up
AddStep ==
    /\ Ops < MaxOps
    /\ \E msg_log \in StepLabels :
          /\ test_steps' = Append(test_steps, msg_log)
          /\ call' = [fn |-> "add_step", msg_log |-> msg_log]
    /\ ret' = IF TEST_ID \in DOMAIN failed_logs_dict THEN [exc |-> "", v |-> PyNone]
              ELSE Raise("KeyError")
    /\ UNCHANGED <<pc, all_failed_logs, failed_logs_dict, TEST_ID, driver_list, web_driver,
                   quit_drivers, retry,
                   check_log, screenshots, attachments>>

NewDriver == [t |-> "driver", id |-> Len(driver_list) + 1]

\* DriverManager.get_driver
GetDriver ==
    /\ Ops < MaxOps
    /\ \E platform \in Platforms :
          /\ call' = [fn |-> "get_driver", platform |-> platform]
          /\ IF platform = "web"
             THEN /\ driver_list' = Append(driver_list, NewDriver)
                  /\ web_driver' = NewDriver
                  /\ ret' = [exc |-> "", v |-> NewDriver]
             ELSE /\ UNCHANGED <<driver_list, web_driver>>
                  /\ ret' = [exc |-> "", v |-> PyNone]
    /\ UNCHANGED <<pc, test_steps, all_failed_logs, failed_logs_dict, TEST_ID, check_log,
                   screenshots, attachments, quit_drivers, retry>>

\* DriverManager.quit_driver: WebDriver.quit() quits the driver WebDriver._driver
\* holds, if it holds one, and forgets it; driver_list is not touched
QuitDriver ==
    /\ \E platform \in Platforms :
          /\ call' = [fn |-> "quit_driver", platform |-> platform]
          /\ IF platform = "web" /\ web_driver # NoDriver
             THEN /\ quit_drivers' = quit_drivers \cup {web_driver}
                  /\ web_driver' = NoDriver
             ELSE UNCHANGED <<web_driver, quit_drivers>>
    /\ ret' = [exc |-> "", v |-> PyNone]
    /\ UNCHANGED <<pc, test_steps, all_failed_logs, failed_logs_dict, TEST_ID, driver_list,
                   check_log, screenshots, attachments, retry>>

SoftAssert ==
    /\ Ops < MaxOps
    /\ \E a \in SoftAssertInputs :
          Finish(_soft_assert(Regs, a), [fn |-> "_soft_assert", args |-> a])

AssertContains ==
    /\ Ops < MaxOps
    /\ \E i \in ContainsInputs :
          Finish(assert_contains(Regs, i[1], i[2], i[3]),
                 [fn |-> "assert_contains", actual |-> i[1], expected |-> i[2],
                  error_message |-> i[3]])

AssertDict ==
    /\ Ops < MaxOps
    /\ \E i \in AssertDictInputs :
          Finish(assert_dict(Regs, i[1], i[2], "", i[3].tolerance_percent,
                             i[3].tolerance_fields, i[3].tolerance_map),
                 [fn |-> "assert_dict", actual |-> i[1], expected |-> i[2],
                  tolerance |-> i[3]])

Next ==
    \/ InitTestLogs
    \/ AddStep
    \/ GetDriver
    \/ QuitDriver
    \/ SoftAssert
    \/ AssertContains
    \/ AssertDict

Spec == Init /\ [][Next]_vars

(***************************************************************************)
(* Properties of the soft assertions (Spec)                                *)
(***************************************************************************)
\* C9: _soft_assert on two dicts with the contains operator compares expected
\* with the keys of actual that expected has: the keys only actual has do not
\* fail the assertion, and a key passes exactly when its two values are equal.
C9_ContainsComparesFilteredActual ==
    (/\ call.fn = "_soft_assert"
     /\ IsDict(call.args.actual) /\ IsDict(call.args.expected)
     /\ call.args.assert_op = "contains")
    => /\ ~Raised(ret)
       /\ ret.v.res <=> \A k \in Range(call.args.expected.keys) :
                           /\ HasKey(call.args.actual, k)
                           /\ PyEq(call.args.actual.val[k], call.args.expected.val[k])

assert_equal_unchecked(R, actual, expected, error_message) ==
    _soft_assert(R, Args(actual, expected, "eq", error_message, PyNone, PyNone, PyNone))

assert_equal(R, actual, expected, error_message) ==
    IF IsDict(actual) \/ IsDict(expected) THEN Throw(R, "TypeError")
    ELSE _soft_assert(R, Args(actual, expected, "eq", error_message, PyNone, PyNone, PyNone))

assert_not_equal(R, actual, expected, error_message) ==
    _soft_assert(R, Args(actual, expected, "ne", error_message, PyNone, PyNone, PyNone))

assert_less_than(R, actual, expected, error_message) ==
    _soft_assert(R, Args(actual, expected, "lt", error_message, PyNone, PyNone, PyNone))

assert_less_than_or_equal(R, actual, expected, error_message) ==
    _soft_assert(R, Args(actual, expected, "le", error_message, PyNone, PyNone, PyNone))

assert_greater_than(R, actual, expected, error_message) ==
    _soft_assert(R, Args(actual, expected, "gt", error_message, PyNone, PyNone, PyNone))

assert_greater_than_or_equal(R, actual, expected, error_message) ==
    _soft_assert(R, Args(actual, expected, "ge", error_message, PyNone, PyNone, PyNone))

assert_almost_equal(R, actual, expected, error_message, tolerance_percent) ==
    _soft_assert(R, Args(actual, expected, "eq", error_message, tolerance_percent,
                         PyNone, PyNone))

(***************************************************************************)
(* SpecApi: one call of a public assertion, made in a state of the         *)
(* registries a session reaches.                                           *)
(***************************************************************************)
VerifyStep == <<"V", "E", "R", "I", "F", "Y", " ", "S", "L">>

Driver1 == [t |-> "driver", id |-> 1]

\* registries a session reaches: the fresh ones; a test under way, its log
\* initialised, a verify step logged and a driver open; a verify step logged
\* before the test's log was initialised
ApiStates ==
    { [test_steps |-> <<>>, failed_logs_dict |-> [id \in {} |-> <<>>],
       driver_list |-> <<>>, web_driver |-> NoDriver],
      [test_steps |-> <<VerifyStep>>, failed_logs_dict |-> ("" :> <<>>),
       driver_list |-> <<Driver1>>, web_driver |-> Driver1],
      [test_steps |-> <<VerifyStep>>, failed_logs_dict |-> [id \in {} |-> <<>>],
       driver_list |-> <<>>, web_driver |-> NoDriver] }

\* the operands the assertions are called with: actual, expected
ApiOperands ==
    { <<Price, Price>>, <<Dec(0, 11033, 2), Price>>, <<Buy, Price>>, <<Buy, Bu>>,
      <<PyList(<<Num(1), Num(2)>>), PyList(<<Num(2)>>)>>,
      <<Dict1("side", Buy), Dict1("side", Buy)>>,
      <<Dict1("side", Buy), Dict1("side", Bu)>>,
      <<Dict1("side", Buy), Dict2("side", Buy, "price", Price)>>,
      <<Dict1("price", Price), Price>>,
      <<Buy, Dict1("side", Buy)>> }

ApiNames ==
    { "assert_equal", "assert_not_equal", "assert_contains", "assert_dict",
      "assert_less_than", "assert_less_than_or_equal", "assert_greater_than",
      "assert_greater_than_or_equal", "assert_almost_equal" }

InitApi ==
    /\ pc = "ready"
    /\ call \in { [fn |-> f, actual |-> o[1], expected |-> o[2]] :
                    f \in ApiNames, o \in ApiOperands }
    /\ ret = Pending
    /\ TEST_ID = ""
    /\ all_failed_logs = <<>>
    /\ check_log = <<>>
    /\ screenshots = <<>>
    /\ attachments = <<>>
    /\ \E s \in ApiStates :
          /\ test_steps = s.test_steps
          /\ failed_logs_dict = s.failed_logs_dict
          /\ driver_list = s.driver_list
          /\ web_driver = s.web_driver
    /\ quit_drivers = {}
    /\ RetryInit

\* a call has ended: its outcome and the registries it worked on
Outcome(R) ==
    /\ pc' = "done"
    /\ ret' = IF Raised(R) THEN Raise(R.exc) ELSE [exc |-> "", v |-> R.value]
    /\ all_failed_logs' = R.all_failed_logs
    /\ failed_logs_dict' = R.failed_logs_dict
    /\ check_log' = R.check_log
    /\ screenshots' = R.screenshots
    /\ attachments' = R.attachments
    /\ test_steps' = R.test_steps
    /\ driver_list' = R.driver_list
    /\ TEST_ID' = R.TEST_ID
    /\ UNCHANGED <<call, web_driver, quit_drivers>>

\* the call of an assertion has run
Done(R) ==
    /\ Outcome(R)
    /\ UNCHANGED retry

CallEqual ==
    /\ pc = "ready" /\ call.fn = "assert_equal"
    /\ Done(assert_equal(Regs, call.actual, call.expected, ""))

CallNotEqual ==
    /\ pc = "ready" /\ call.fn = "assert_not_equal"
    /\ Done(assert_not_equal(Regs, call.actual, call.expected, ""))

CallContains ==
    /\ pc = "ready" /\ call.fn = "assert_contains"
    /\ Done(assert_contains(Regs, call.actual, call.expected, ""))

CallDict ==
    /\ pc = "ready" /\ call.fn = "assert_dict"
    /\ Done(assert_dict(Regs, call.actual, call.expected, "", PyNone, PyNone, PyNone))

CallLessThan ==
    /\ pc = "ready" /\ call.fn = "assert_less_than"
    /\ Done(assert_less_than(Regs, call.actual, call.expected, ""))

CallLessThanOrEqual ==
    /\ pc = "ready" /\ call.fn = "assert_less_than_or_equal"
    /\ Done(assert_less_than_or_equal(Regs, call.actual, call.expected, ""))

CallGreaterThan ==
    /\ pc = "ready" /\ call.fn = "assert_greater_than"
    /\ Done(assert_greater_than(Regs, call.actual, call.expected, ""))

CallGreaterThanOrEqual ==
    /\ pc = "ready" /\ call.fn = "assert_greater_than_or_equal"
    /\ Done(assert_greater_than_or_equal(Regs, call.actual, call.expected, ""))

CallAlmostEqual ==
    /\ pc = "ready" /\ call.fn = "assert_almost_equal"
    /\ Done(assert_almost_equal(Regs, call.actual, call.expected, "", Pct(1)))

NextApi ==
    \/ CallEqual
    \/ CallNotEqual
    \/ CallContains
    \/ CallDict
    \/ CallLessThan
    \/ CallLessThanOrEqual
    \/ CallGreaterThan
    \/ CallGreaterThanOrEqual
    \/ CallAlmostEqual

SpecApi == InitApi /\ [][NextApi]_vars

(***************************************************************************)
(* Properties of the public assertions (SpecApi)                           *)
(***************************************************************************)
\* the call breaks the usage contract of the assertion it names
UsageError(c) ==
    \/ c.fn \in {"assert_equal", "assert_contains"}
       /\ (IsDict(c.actual) \/ IsDict(c.expected))
    \/ c.fn = "assert_dict" /\ (~IsDict(c.actual) \/ ~IsDict(c.expected))

\* C11: assert_equal and assert_contains given a dict, and assert_dict given a
\* non-dict, raise TypeError, and the call reports nothing to the check sink
\* and leaves the failed logs, the step log and every other registry as they were.
C11_UsageErrorBeforeAnything ==
    [][UsageError(call) => (ret' = Raise("TypeError") /\ UNCHANGED registries)]_vars

C11_Witness ==
    /\ pc = "done"
    /\ call.fn = "assert_equal"
    /\ IsDict(call.actual) /\ IsDict(call.expected)
    /\ test_steps = <<VerifyStep>>
    /\ ret = Raise("TypeError")
    /\ check_log = <<>> /\ all_failed_logs = <<>>

\* C12: a public assertion called within its usage contract, in a test whose
\* failed log is initialised, returns without raising whatever its operands
\* are, and what it returns is the outcome it reported to the check sink.
C12_OnlyUsageErrorsRaise ==
    (pc = "done" /\ ~UsageError(call) /\ TEST_ID \in DOMAIN failed_logs_dict)
        => /\ ~Raised(ret)
           /\ Len(check_log) = 1

\* C17: assert_not_equal reports a pass exactly when its two arguments are
\* not equal, two dicts included: dicts that differ pass, equal dicts fail.
C17_NotEqualPassesIffDifferent ==
    (pc = "done" /\ call.fn = "assert_not_equal" /\ Len(check_log) = 1)
        => (check_log[1].passed <=> ~PyEq(call.actual, call.expected))

(***************************************************************************)
(* Properties of a session of calls (Spec)                                 *)
(***************************************************************************)
\* the call is a soft assertion made within its usage contract
SoftAssertionCall(c) ==
    /\ c.fn \in {"_soft_assert", "assert_contains", "assert_dict"}
    /\ ~UsageError(c)

\* C13: every soft assertion call of a session adds exactly one outcome to the
\* check sink and returns to its caller, so that n calls of which k fail leave
\* n reports with k failures, whatever the calls before it reported.
C13_EveryCallReportsOnceAndReturns ==
    [][SoftAssertionCall(call')
          => /\ ~Raised(ret')
             /\ Len(check_log') = Len(check_log) + 1
             /\ SubSeq(check_log', 1, Len(check_log)) = check_log]_vars

\* the steps of the log whose text contains "verify" in any case, as logged
VerifyLabelled(steps) ==
    SelectSeq(steps, LAMBDA item : IsSubText(<<"v", "e", "r", "i", "f", "y">>, Lower(item)))

\* the step reported one failure to the check sink
ReportsFailure ==
    /\ Len(check_log') = Len(check_log) + 1
    /\ ~check_log'[Len(check_log')].passed

\* the entry the failure is recorded with: the step description and the detail
FailedEntry ==
    <<VerifyLabelled(test_steps)[Len(VerifyLabelled(test_steps))],
      check_log'[Len(check_log')].msg>>

\* C14: a failing soft assertion made while the step log has a step labelled
\* "verify" appends one entry, that step's description and the failure detail,
\* to all_failed_logs and to the current test's list of failed_logs_dict; any
\* other soft assertion leaves both unchanged; none changes the step log.
C14_FailureRecording ==
    [][SoftAssertionCall(call')
          => /\ test_steps' = test_steps
             /\ IF ReportsFailure /\ VerifyLabelled(test_steps) # <<>>
                THEN /\ all_failed_logs' = Append(all_failed_logs, FailedEntry)
                     /\ TEST_ID \in DOMAIN failed_logs_dict'
                     /\ TEST_ID \in DOMAIN failed_logs_dict
                     /\ failed_logs_dict' =
                           [failed_logs_dict EXCEPT
                               ![TEST_ID] = Append(failed_logs_dict[TEST_ID], FailedEntry)]
                ELSE /\ all_failed_logs' = all_failed_logs
                     /\ failed_logs_dict' = failed_logs_dict]_vars

\* C15: the handling of a failed check never raises: a soft assertion that
\* reported a failure returns its result to the caller, also when TEST_ID has
\* no entry in failed_logs_dict.
C15_FailureChannelNeverRaises ==
    [][(SoftAssertionCall(call') /\ ReportsFailure) => ~Raised(ret')]_vars

\* C16: driver_list holds only drivers that were acquired and have not been
\* quit; once quit_driver has run on the web platform every acquired driver
\* has been quit; a soft assertion leaves driver_list as it was.
C16_DriverListHoldsActiveHandles ==
    [][/\ \A i \in 1..Len(driver_list') : driver_list'[i] \notin quit_drivers'
       /\ (call'.fn = "quit_driver" /\ call'.platform = "web")
             => \A id \in 1..Len(driver_list) :
                   [t |-> "driver", id |-> id] \in quit_drivers'
       /\ call'.fn \in {"_soft_assert", "assert_contains", "assert_dict"}
             => driver_list' = driver_list]_vars

(***************************************************************************)
(* handle_stale_element: a call of a wrapped element action, one step per  *)
(* call of the wrapped function.                                           *)
(***************************************************************************)
max_retries == 3

\* the exceptions the wrapper catches
StaleExceptions ==
    { "StaleElementReferenceException", "ElementNotInteractableException",
      "ElementClickInterceptedException" }

\* what the n-th call of the wrapped function returns when it returns
Result(n) == [t |-> "result", of |-> n]

InitStale ==
    /\ pc = "attempt"
    /\ call \in { [fn |-> "handle_stale_element", raise_exception |-> b] : b \in BOOLEAN }
    /\ ret = Pending
    /\ TEST_ID = ""
    /\ all_failed_logs = <<>>
    /\ check_log = <<>>
    /\ screenshots = <<>>
    /\ attachments = <<>>
    /\ \E s \in ApiStates :
          /\ test_steps = s.test_steps
          /\ failed_logs_dict = s.failed_logs_dict
          /\ driver_list = s.driver_list
          /\ web_driver = s.web_driver
    /\ quit_drivers = {}
    /\ RetryInit

\* the wrapped function returns: the wrapper returns its result at once
StaleReturn ==
    /\ pc = "attempt"
    /\ issued' = Append(issued, "return")
    /\ ret' = [exc |-> "", v |-> Result(Len(issued) + 1)]
    /\ pc' = "done"
    /\ UNCHANGED <<call, registries, attempt, slept>>

\* the wrapped function raises an exception the wrapper does not catch
StaleUncaught ==
    /\ pc = "attempt"
    /\ issued' = Append(issued, "TimeoutException")
    /\ ret' = Raise("TimeoutException")
    /\ pc' = "done"
    /\ UNCHANGED <<call, registries, attempt, slept>>

\* a caught exception before the last attempt: the loop goes on
StaleRetry ==
    /\ pc = "attempt"
    /\ attempt < max_retries
    /\ \E e \in StaleExceptions : issued' = Append(issued, e)
    /\ attempt' = attempt + 1
    /\ UNCHANGED <<pc, call, ret, registries, slept>>

\* StepLogs.add_failed_log(StepLogs.test_steps[-1]); attach_screenshot(self._driver);
\* raise e
RecordBroken(R, e) ==
    IF Raised(R) THEN R
    ELSE Throw([R EXCEPT !.screenshots = Append(@, Driver1)], e)

\* a caught exception at the last attempt
GiveUp(R, e, raise_exception) ==
    IF raise_exception /\ R.test_steps # <<>>
    THEN RecordBroken(add_failed_log(R, R.test_steps[Len(R.test_steps)], ""), e)
    ELSE R

StaleGiveUp ==
    /\ pc = "attempt"
    /\ ~(attempt < max_retries)
    /\ \E e \in StaleExceptions :
          /\ issued' = Append(issued, e)
          /\ Outcome(GiveUp(Regs, e, call.raise_exception))
    /\ UNCHANGED <<attempt, slept>>

NextStale ==
    \/ StaleReturn
    \/ StaleUncaught
    \/ StaleRetry
    \/ StaleGiveUp

SpecStale == InitStale /\ [][NextStale]_vars

\* C18: the wrapped function is called at most 4 times; when a call returns,
\* the wrapper returns that call's result and makes no further call; when the
\* last attempt fails too and raise_exception is set, the wrapper raises that
\* exception, with a failed-log entry for the latest step recorded.
C18_StaleRetryProtocol ==
    /\ Len(issued) <= 4
    /\ \A n \in 1..Len(issued) :
          issued[n] = "return" => (n = Len(issued) /\ pc = "done" /\ ret.exc = ""
                                   /\ ret.v = Result(n))
    /\ (pc = "done" /\ Len(issued) = 4 /\ issued[4] \in StaleExceptions
                    /\ call.raise_exception)
          => /\ ret = Raise(issued[4])
             /\ test_steps # <<>>
                   => all_failed_logs = <<<<test_steps[Len(test_steps)], "">>>>

(***************************************************************************)
(* after_request: a call of a wrapped API request, one step per call of    *)
(* the wrapped function.                                                   *)
(***************************************************************************)
MaxRetries == 3

\* what a response holds: a JSON object with a "result" key, a JSON object
\* without one, a JSON list, text that is not JSON, nothing
Bodies == {"result", "object", "list", "text", "empty"}

\* the response to the n-th request
Response(n, ok, body) == [t |-> "response", n |-> n, ok |-> ok, body |-> body]

Responses(n) == { Response(n, ok, body) : ok \in BOOLEAN, body \in Bodies }

ConnectionError == [t |-> "exception", name |-> "ConnectionError"]

IsOk(o) == o.t = "response" /\ o.ok

\* resp.json() gives a dict only for a JSON object; of it the "result" entry
\* is returned, or all of it; for anything else the except branch returns resp.text
_parse_result(resp, parse_result) ==
    IF ~parse_result THEN resp
    ELSE IF resp.body = "result" THEN [t |-> "json", n |-> resp.n, part |-> "result"]
    ELSE IF resp.body = "object" THEN [t |-> "json", n |-> resp.n, part |-> "all"]
    ELSE [t |-> "text", n |-> resp.n, is |-> resp.body]

\* base_delay * (2 ** attempt), with no upper limit
delay_uncapped(base_delay, max_delay, k) ==
    PyNum(FMul(base_delay.f, PyFloat(0, Pow2(k), <<>>)))

FloatMin(a, b) == IF FLt(b.f, a.f) THEN b ELSE a

\* min(base_delay * (2 ** attempt), max_delay)
delay(base_delay, max_delay, k) ==
    FloatMin(delay_uncapped(base_delay, max_delay, k), max_delay)

\* the arguments of the decorator: base_delay, max_delay
Delays == { <<Dec(0, 1, 0), Dec(0, 10, 0)>>, <<Dec(0, 4, 0), Dec(0, 6, 0)>> }

InitRequest ==
    /\ pc = "request"
    /\ call \in { [fn |-> "after_request", base_delay |-> d[1], max_delay |-> d[2],
                   max_retries |-> n, apply_retries |-> a, parse_result |-> p] :
                    d \in Delays, n \in 0..MaxRetries, a \in BOOLEAN, p \in BOOLEAN }
    /\ ret = Pending
    /\ RegistriesInit
    /\ RetryInit

\* apply_retries is off: one request, whose parsed response is returned, or
\* whose exception goes to the caller
RequestOnce ==
    /\ pc = "request"
    /\ ~call.apply_retries
    /\ \E o \in Responses(1) \cup {ConnectionError} :
          /\ issued' = <<o>>
          /\ ret' = IF o.t = "response"
                    THEN [exc |-> "", v |-> _parse_result(o, call.parse_result)]
                    ELSE Raise(o.name)
    /\ pc' = "done"
    /\ UNCHANGED <<call, registries, attempt, slept>>

\* an attempt whose response is ok
AttemptOk ==
    /\ pc = "request"
    /\ call.apply_retries
    /\ attempt < call.max_retries
    /\ \E body \in Bodies :
          /\ issued' = Append(issued, Response(Len(issued) + 1, TRUE, body))
          /\ ret' = [exc |-> "",
                     v |-> _parse_result(Response(Len(issued) + 1, TRUE, body),
                                         call.parse_result)]
    /\ pc' = "done"
    /\ UNCHANGED <<call, registries, attempt, slept>>

\* the response is not ok, or the request raised
Failures(n) == { Response(n, FALSE, body) : body \in Bodies } \cup {ConnectionError}

\* a failed attempt that is not the last: sleep, then the next attempt
AttemptRetry ==
    /\ pc = "request"
    /\ call.apply_retries
    /\ attempt < call.max_retries
    /\ attempt # call.max_retries - 1
    /\ \E o \in Failures(Len(issued) + 1) : issued' = Append(issued, o)
    /\ slept' = Append(slept, delay(call.base_delay, call.max_delay, attempt))
    /\ attempt' = attempt + 1
    /\ UNCHANGED <<pc, call, ret, registries>>

\* the last attempt failed: RequestException for a response that is not ok,
\* or the exception of the request, raised again by the except branch
AttemptLast ==
    /\ pc = "request"
    /\ call.apply_retries
    /\ attempt = call.max_retries - 1
    /\ \E o \in Failures(Len(issued) + 1) :
          /\ issued' = Append(issued, o)
          /\ ret' = IF o.t = "response" THEN Raise("RequestException") ELSE Raise(o.name)
    /\ pc' = "done"
    /\ UNCHANGED <<call, registries, attempt, slept>>

\* the loop has nothing to run: return None
LoopEnd ==
    /\ pc = "request"
    /\ call.apply_retries
    /\ ~(attempt < call.max_retries)
    /\ ret' = [exc |-> "", v |-> PyNone]
    /\ pc' = "done"
    /\ UNCHANGED <<call, registries, retry>>

NextRequest ==
    \/ RequestOnce
    \/ AttemptOk
    \/ AttemptRetry
    \/ AttemptLast
    \/ LoopEnd

SpecRequest == InitRequest /\ [][NextRequest]_vars

\* the wrapper has returned the parsed n-th response
ReturnedParsed(n) ==
    /\ pc = "done"
    /\ n = Len(issued)
    /\ ret = [exc |-> "", v |-> _parse_result(issued[n], call.parse_result)]

\* C19: with apply_retries and max_retries >= 1, at most max_retries requests
\* are issued; the first ok response ends the call with its parsed result; the
\* k-th wait (k = 0, 1, ...) is min(base_delay * 2^k, max_delay) and follows
\* every failed attempt but the last; a call that saw no ok response ends by
\* raising.  Without apply_retries one request is issued and its parsed
\* response returned, ok or not.
C19_RequestRetryProtocol ==
    /\ (call.apply_retries /\ call.max_retries >= 1)
          => /\ Len(issued) <= call.max_retries
             /\ \A n \in 1..Len(issued) : IsOk(issued[n]) => ReturnedParsed(n)
             /\ Len(slept) = IF pc = "done" THEN Len(issued) - 1 ELSE Len(issued)
             /\ \A k \in 0..(Len(slept) - 1) :
                   /\ FCmp(slept[k + 1].f, call.max_delay.f) <= 0
                   /\ FCmp(slept[k + 1].f,
                           FMul(call.base_delay.f, PyFloat(0, Pow2(k), <<>>))) <= 0
                   /\ \/ slept[k + 1] = call.max_delay
                      \/ slept[k + 1].f = FMul(call.base_delay.f, PyFloat(0, Pow2(k), <<>>))
             /\ (pc = "done" /\ \A n \in 1..Len(issued) : ~IsOk(issued[n]))
                   => (Raised(ret) /\ Len(issued) = call.max_retries)
    /\ (~call.apply_retries /\ pc = "done")
          => /\ Len(issued) = 1
             /\ slept = <<>>
             /\ issued[1].t = "response" => ReturnedParsed(1)

C19_Witness ==
    /\ pc = "done"
    /\ call.apply_retries
    /\ call.max_retries = 3
    /\ Len(issued) = 3
    /\ IsOk(issued[3])
    /\ ret.exc = "" /\ ret.v.n = 3
    /\ slept = <<Dec(0, 4, 0), Dec(0, 6, 0)>>

====
